---- MODULE Spec2Model ----
(***************************************************************************)
(* State-machine model of the lane-changing car game: the vehicle          *)
(* (car.py), the road with its obstacle registry and score (road.py), the  *)
(* command source (model_predictor.py) and the game loop (main.py).        *)
(*                                                                         *)
(* Units.  The program computes with Python floats; the model keeps every  *)
(* quantity as an exact integer in a unit fine enough to hold the values   *)
(* the program can produce (float rounding error is not modelled):         *)
(*   velocity, acceleration      tenths of a unit      (3 is 30)           *)
(*   dt, timers                  milliseconds          (0.5 s is 500)      *)
(*   obstacle y                  1/200 of a pixel      (-100 is -20000)    *)
(*   distance_traveled           1/2000 of a unit                          *)
(*   road_y_offset               1/100 of a pixel                          *)
(*   vehicle x, y, rectangles    pixels                                    *)
(***************************************************************************)
EXTENDS Integers, Sequences, FiniteSets, TLC

VARIABLES car, car_ref, road, game, hist

vars == <<car, car_ref, road, game, hist>>

Max(a, b) == IF a >= b THEN a ELSE b

Min(a, b) == IF a <= b THEN a ELSE b

Abs(a) == IF a >= 0 THEN a ELSE -a

(***************************************************************************)
(* Bounds of the model.                                                    *)
(***************************************************************************)
\* Consecutive braking ticks are counted up to this number.
MaxBrakeTicks == 5

\* Consecutive ticks without braking, counted from a standstill, are
\* counted up to this number.
MaxAccelTicks == 16

\* The tick lengths (ms) a caller passes to Car.update.
CarDtSet == {16, 500}

\* The command strings a caller passes to Car.update_controls: the four of
\* the vocabulary, the label NO_ACTION, and NONE (the initial last_command).
CommandStrings == {"BRAKE", "SWIPE_LEFT", "SWIPE_RIGHT", "CENTER", "NO_ACTION", "NONE"}

\* The tick lengths (ms) and vehicle velocities (tenths) a caller passes to
\* Road.update, and the number of Road.update calls made on one road.
RoadDtSet == {16, 750}

RoadVSet == {0, 2, 30}

MaxRoadTicks == 4

\* The draws of random.randint(0, num_lanes - 1) and of random.random()
\* (hundredths) in spawn_obstacle.
LaneDraws == {0, 1, 2}

RandDraws == {0, 32, 33, 66, 67, 99}

\* The vehicle x positions check_collisions is asked about: lane centers
\* and positions in transit next to the center lane.
CheckXs == {100, 250, 260, 300, 340, 350, 500}

\* The tick lengths (ms) the clock gives the game loop, and the number of
\* frames of one run of the loop.
GameDtSet == {500}

MaxGameTicks == 12

\* The events of one frame: at most MaxEvents of these kinds.
EventKinds == {"QUIT", "ESCAPE", "R", "OTHER"}

MaxEvents == 2

\* The number of frames of a run of the loop that is followed over several
\* rounds, and the events of a frame in such a run: none, or an R key.
MaxRoundTicks == 22

RoundEvents == { << >>, <<"R">> }

\* The outcomes of one call of the classifier: an exception, or the index of
\* the largest output with its value in percent.
NoPrediction == [ ok |-> FALSE, index |-> 0, confidence |-> 0 ]

PredictDraws ==
    { NoPrediction }
        \cup { [ ok |-> TRUE, index |-> i, confidence |-> 90 ] : i \in {0, 1, 2} }

\* The draw of random.random() in the game loop (the obstacle type has no
\* effect on the game; all types are drawn under SpecRoad).
GameRandDraws == {50}

KnownCommands == {"BRAKE", "SWIPE_LEFT", "SWIPE_RIGHT", "CENTER"}

(***************************************************************************)
(* car.py: class Car                                                       *)
(***************************************************************************)
max_velocity == 60

acceleration == 2

default_speed == 30

lane_width == 200

lane_change_speed == 10

LaneCenter(l) == l * lane_width + lane_width \div 2

\* Car.__init__(x, y, width, height): the x argument is not used, the car
\* starts at the center of lane 1.
Car_init(x, y, width, height) ==
    [ y |-> y, width |-> width, height |-> height,
      velocity |-> 0, lane |-> 1, target_lane |-> 1,
      x |-> LaneCenter(1),
      braking |-> FALSE,
      current_command |-> "CENTER", last_command |-> "NONE" ]

\* LaneAction with neither the edge test nor the clamp.
LaneAction_NoClamp(c, model_action) ==
    IF model_action # c.last_command
    THEN IF model_action = "SWIPE_LEFT"
         THEN c.target_lane - 1
         ELSE IF model_action = "SWIPE_RIGHT"
              THEN c.target_lane + 1
              ELSE c.target_lane
    ELSE c.target_lane

\* LaneAction without the comparison against last_command.
LaneAction_NoDebounce(c, model_action) ==
    IF model_action = "SWIPE_LEFT" /\ c.target_lane > 0
    THEN Max(0, c.target_lane - 1)
    ELSE IF model_action = "SWIPE_RIGHT" /\ c.target_lane < 2
         THEN Min(2, c.target_lane + 1)
         ELSE c.target_lane

\* LaneAction with a bare else in place of the test for SWIPE_RIGHT.
LaneAction_ElseRight(c, model_action) ==
    IF model_action # c.last_command
    THEN IF model_action = "SWIPE_LEFT" /\ c.target_lane > 0
         THEN Max(0, c.target_lane - 1)
         ELSE IF c.target_lane < 2
              THEN Min(2, c.target_lane + 1)
              ELSE c.target_lane
    ELSE c.target_lane

\* LaneAction with the two directions exchanged.
LaneAction_Swapped(c, model_action) ==
    IF model_action # c.last_command
    THEN IF model_action = "SWIPE_RIGHT" /\ c.target_lane > 0
         THEN Max(0, c.target_lane - 1)
         ELSE IF model_action = "SWIPE_LEFT" /\ c.target_lane < 2
              THEN Min(2, c.target_lane + 1)
              ELSE c.target_lane
    ELSE c.target_lane

\* The lane action of update_controls, taken when braking is not requested.
LaneAction(c, model_action) ==
    IF model_action # c.last_command
    THEN IF model_action = "SWIPE_LEFT" /\ c.target_lane > 0
         THEN Max(0, c.target_lane - 1)
         ELSE IF model_action = "SWIPE_RIGHT" /\ c.target_lane < 2
              THEN Min(2, c.target_lane + 1)
              ELSE c.target_lane
    ELSE c.target_lane

\* update_controls with a BRAKE command also stopping the car at once.
Car_update_controls_BrakeStops(c, model_action) ==
    [ c EXCEPT !.current_command = model_action,
               !.braking = (model_action = "BRAKE"),
               !.velocity = IF model_action = "BRAKE" THEN 0 ELSE c.velocity,
               !.target_lane = IF model_action = "BRAKE"
                               THEN c.target_lane
                               ELSE LaneAction(c, model_action),
               !.last_command = model_action ]

\* update_controls recording last_command only in the branch that is taken
\* when braking is not requested.
Car_update_controls_KeepLastOnBrake(c, model_action) ==
    [ c EXCEPT !.current_command = model_action,
               !.braking = (model_action = "BRAKE"),
               !.target_lane = IF model_action = "BRAKE"
                               THEN c.target_lane
                               ELSE LaneAction(c, model_action),
               !.last_command = IF model_action = "BRAKE"
                                THEN c.last_command
                                ELSE model_action ]

\* Car.update_controls(model_action)
Car_update_controls(c, model_action) ==
    [ c EXCEPT !.current_command = model_action,
               !.braking = (model_action = "BRAKE"),
               !.target_lane = IF model_action = "BRAKE"
                               THEN c.target_lane
                               ELSE LaneAction(c, model_action),
               !.last_command = model_action ]

\* NextVelocity without the floor at 0 under braking.
NextVelocity_NoFloor(c) ==
    IF c.braking
    THEN c.velocity - acceleration * 4
    ELSE IF c.velocity < default_speed
         THEN Min(default_speed, c.velocity + acceleration)
         ELSE default_speed

\* NextVelocity braking by one acceleration step instead of four.
NextVelocity_WeakBrake(c) ==
    IF c.braking
    THEN Max(0, c.velocity - acceleration)
    ELSE IF c.velocity < default_speed
         THEN Min(default_speed, c.velocity + acceleration)
         ELSE default_speed

\* NextVelocity accelerating toward max_velocity instead of default_speed.
NextVelocity_ToMax(c) ==
    IF c.braking
    THEN Max(0, c.velocity - acceleration * 4)
    ELSE Min(max_velocity, c.velocity + acceleration)

\* The speed part of Car.update: dt is not used.
NextVelocity(c) ==
    IF c.braking
    THEN Max(0, c.velocity - acceleration * 4)
    ELSE IF c.velocity < default_speed
         THEN Min(default_speed, c.velocity + acceleration)
         ELSE default_speed

\* Car.update releasing the brake once the car stands.
Car_update_ReleaseAtStop(c, dt) ==
    LET target_x == LaneCenter(c.target_lane)
        v == NextVelocity(c)
    IN  IF Abs(c.x - target_x) > 3
        THEN [ c EXCEPT !.velocity = v,
                        !.braking = c.braking /\ v > 0,
                        !.x = IF c.x < target_x
                              THEN c.x + lane_change_speed
                              ELSE c.x - lane_change_speed ]
        ELSE [ c EXCEPT !.velocity = v,
                        !.braking = c.braking /\ v > 0,
                        !.x = target_x,
                        !.lane = c.target_lane ]

\* Car.update changing lanes only while the car moves forward.
Car_update_NoSteerAtStop(c, dt) ==
    LET target_x == LaneCenter(c.target_lane)
    IN  IF NextVelocity(c) = 0
        THEN [ c EXCEPT !.velocity = 0 ]
        ELSE IF Abs(c.x - target_x) > 3
        THEN [ c EXCEPT !.velocity = NextVelocity(c),
                        !.x = IF c.x < target_x
                              THEN c.x + lane_change_speed
                              ELSE c.x - lane_change_speed ]
        ELSE [ c EXCEPT !.velocity = NextVelocity(c),
                        !.x = target_x,
                        !.lane = c.target_lane ]

\* Car.update moving the car up the screen by its velocity.
Car_update_MovesY(c, dt) ==
    LET target_x == LaneCenter(c.target_lane)
    IN  IF Abs(c.x - target_x) > 3
        THEN [ c EXCEPT !.velocity = NextVelocity(c),
                        !.y = c.y - NextVelocity(c) \div 10,
                        !.x = IF c.x < target_x
                              THEN c.x + lane_change_speed
                              ELSE c.x - lane_change_speed ]
        ELSE [ c EXCEPT !.velocity = NextVelocity(c),
                        !.y = c.y - NextVelocity(c) \div 10,
                        !.x = target_x,
                        !.lane = c.target_lane ]

\* Car.update steering three times as fast.
Car_update_WideStep(c, dt) ==
    LET target_x == LaneCenter(c.target_lane)
    IN  IF Abs(c.x - target_x) > 3
        THEN [ c EXCEPT !.velocity = NextVelocity(c),
                        !.x = IF c.x < target_x
                              THEN c.x + 3 * lane_change_speed
                              ELSE c.x - 3 * lane_change_speed ]
        ELSE [ c EXCEPT !.velocity = NextVelocity(c),
                        !.x = target_x,
                        !.lane = c.target_lane ]

\* Car.update setting lane in the step that reaches the lane center.
Car_update_LaneOnArrival(c, dt) ==
    LET target_x == LaneCenter(c.target_lane)
        x2 == IF c.x < target_x
              THEN c.x + lane_change_speed
              ELSE c.x - lane_change_speed
    IN  IF Abs(c.x - target_x) > 3
        THEN [ c EXCEPT !.velocity = NextVelocity(c),
                        !.x = x2,
                        !.lane = IF x2 = target_x THEN c.target_lane ELSE c.lane ]
        ELSE [ c EXCEPT !.velocity = NextVelocity(c),
                        !.x = target_x,
                        !.lane = c.target_lane ]

\* Car.update(dt)
Car_update(c, dt) ==
    LET target_x == LaneCenter(c.target_lane)
    IN  IF Abs(c.x - target_x) > 3
        THEN [ c EXCEPT !.velocity = NextVelocity(c),
                        !.x = IF c.x < target_x
                              THEN c.x + lane_change_speed
                              ELSE c.x - lane_change_speed ]
        ELSE [ c EXCEPT !.velocity = NextVelocity(c),
                        !.x = target_x,
                        !.lane = c.target_lane ]

\* Car.get_rect(): pygame.Rect(left, top, width, height), integer pixels.
Car_get_rect(c) ==
    [ left |-> c.x - c.width \div 2, top |-> c.y - c.height \div 2,
      w |-> c.width, h |-> c.height ]

\* Car.reset_position(x, y): the x argument is not used; braking and
\* current_command are not written.
Car_reset_position(c, x, y) ==
    [ c EXCEPT !.y = y, !.velocity = 0, !.lane = 1, !.target_lane = 1,
               !.x = LaneCenter(1), !.last_command = "NONE" ]

\* The car the game constructs: Car(300, 650, 45, 70).
NewCar == Car_init(300, 650, 45, 70)

(***************************************************************************)
(* road.py: class Obstacle                                                 *)
(***************************************************************************)
\* Obstacle.__init__(x, y, width, height, speed, obstacle_type); y is kept
\* in 1/200 pixel.  The animation offset only feeds the drawing.
Obstacle_init(x, y, width, height, speed, obstacle_type) ==
    [ x |-> x, y |-> y, width |-> width, height |-> height, speed |-> speed,
      active |-> TRUE, obstacle_type |-> obstacle_type,
      points_awarded |-> FALSE ]

\* Obstacle.point_values
point_values(obstacle_type) ==
    CASE obstacle_type = "car" -> 10
      [] obstacle_type = "truck" -> 20
      [] obstacle_type = "barrier" -> 5

\* camera_speed * dt * 150 pixels, in 1/200 pixel.
ObstacleStep(dt, camera_speed) == 3 * camera_speed * dt

\* The bottom of the screen, 800 pixels, in 1/200 pixel.
BottomY == 800 * 200

\* Obstacle.update holding an obstacle at the bottom of the screen.
Obstacle_update_StopsAtBottom(o, dt, camera_speed) ==
    LET y2 == Min(o.y + ObstacleStep(dt, camera_speed), BottomY)
    IN  [ o EXCEPT !.y = y2,
                   !.active = IF y2 > BottomY THEN FALSE ELSE o.active ]

\* Obstacle.update(dt, camera_speed)
Obstacle_update(o, dt, camera_speed) ==
    LET y2 == o.y + ObstacleStep(dt, camera_speed)
    IN  [ o EXCEPT !.y = y2,
                   !.active = IF y2 > BottomY THEN FALSE ELSE o.active ]

\* The integer pygame.Rect makes of a float coordinate (given in 1/200
\* pixel): the fraction is dropped, toward zero.
RectInt(v) == IF v >= 0 THEN v \div 200 ELSE -((-v) \div 200)

\* Obstacle.get_rect with a rectangle as wide as the lane.
Obstacle_get_rect_WholeLane(o) ==
    [ left |-> o.x - lane_width \div 2,
      top |-> RectInt(o.y - (o.height \div 2) * 200),
      w |-> lane_width, h |-> o.height ]

\* Obstacle.get_rect(): pygame.Rect(x - width//2, y - height//2, width, height)
Obstacle_get_rect(o) ==
    [ left |-> o.x - o.width \div 2,
      top |-> RectInt(o.y - (o.height \div 2) * 200),
      w |-> o.width, h |-> o.height ]

\* colliderect counting rectangles that touch along an edge as colliding.
colliderect_Touching(a, b) ==
    /\ a.left <= b.left + b.w
    /\ a.top <= b.top + b.h
    /\ a.left + a.w >= b.left
    /\ a.top + a.h >= b.top

\* pygame.Rect.colliderect: the rectangles share a pixel; rectangles that
\* only touch along an edge do not collide.
colliderect(a, b) ==
    /\ a.left < b.left + b.w
    /\ a.top < b.top + b.h
    /\ a.left + a.w > b.left
    /\ a.top + a.h > b.top

(***************************************************************************)
(* road.py: class Road                                                     *)
(***************************************************************************)
num_lanes == 3

line_spacing == 40

obstacle_spawn_interval == 1500

\* Road.__init__(width, height): the state the simulation reads and writes
\* (the particle and explosion lists only feed the drawing).
Road_init ==
    [ road_y_offset |-> 0, obstacles |-> << >>, obstacle_spawn_timer |-> 0,
      obstacle_speed |-> 0, score |-> 0, distance_traveled |-> 0,
      multiplier |-> 1 ]

\* ObstacleType with the thresholds themselves counted to the lower type.
ObstacleType_Inclusive(rand) ==
    IF rand <= 33 THEN "truck"
    ELSE IF rand <= 67 THEN "barrier"
    ELSE "car"

\* The obstacle type spawn_obstacle picks for a draw rand of random.random(),
\* given in hundredths.
ObstacleType(rand) ==
    IF rand < 33 THEN "truck"
    ELSE IF rand < 67 THEN "barrier"
    ELSE "car"

\* Road.spawn_obstacle() with the draws lane of random.randint(0, 2) and
\* rand of random.random().
Road_spawn_obstacle(r, lane, rand) ==
    [ r EXCEPT !.obstacles =
        Append(r.obstacles,
               Obstacle_init(lane * lane_width + lane_width \div 2, -100 * 200,
                             50, 80, r.obstacle_speed, ObstacleType(rand))) ]

\* obstacles.remove(o): the first element equal to o is dropped.
RECURSIVE ListRemove(_, _)
ListRemove(list, o) ==
    IF list = << >> THEN << >>
    ELSE IF Head(list) = o THEN Tail(list)
    ELSE <<Head(list)>> \o ListRemove(Tail(list), o)

\* The loop of Road.update over a copy of the registry: obstacle i of the
\* copy is advanced in place and removed from the registry once inactive.
\* `list` is the registry so far, `done` the number of its elements already
\* visited and kept.
RECURSIVE UpdateObstacles(_, _, _, _)
UpdateObstacles(list, done, dt, car_speed) ==
    IF done >= Len(list) THEN list
    ELSE LET o2 == Obstacle_update(list[done + 1], dt, car_speed)
             list2 == [ list EXCEPT ![done + 1] = o2 ]
         IN  IF ~o2.active
             THEN UpdateObstacles(ListRemove(list2, o2), done, dt, car_speed)
             ELSE UpdateObstacles(list2, done + 1, dt, car_speed)

\* The spawn test of Road.update: the timer, advanced by dt, has reached the
\* spawn interval.
SpawnDue(r, dt) == r.obstacle_spawn_timer + dt >= obstacle_spawn_interval

\* Road.update spawning after the loop over the obstacles instead of before.
Road_update_SpawnLast(r, dt, car_speed, lane, rand) ==
    LET offset == r.road_y_offset + car_speed * dt
        distance_increment == 3 * car_speed * dt
        timer == r.obstacle_spawn_timer + dt
        spawn == SpawnDue(r, dt)
        r1 == [ r EXCEPT
                  !.road_y_offset = IF offset > line_spacing * 100 THEN 0 ELSE offset,
                  !.distance_traveled = r.distance_traveled + distance_increment,
                  !.score = r.score + (distance_increment * r.multiplier) \div 2000,
                  !.obstacle_spawn_timer = IF spawn THEN 0 ELSE timer,
                  !.obstacles = UpdateObstacles(r.obstacles, 0, dt, car_speed) ]
    IN  IF spawn THEN Road_spawn_obstacle(r1, lane, rand) ELSE r1

\* Road.update rounding the score increment to the nearest integer.
Road_update_RoundScore(r, dt, car_speed, lane, rand) ==
    LET offset == r.road_y_offset + car_speed * dt
        distance_increment == 3 * car_speed * dt
        timer == r.obstacle_spawn_timer + dt
        spawn == SpawnDue(r, dt)
        r1 == [ r EXCEPT
                  !.road_y_offset = IF offset > line_spacing * 100 THEN 0 ELSE offset,
                  !.distance_traveled = r.distance_traveled + distance_increment,
                  !.score = r.score
                      + (distance_increment * r.multiplier + 1000) \div 2000,
                  !.obstacle_spawn_timer = IF spawn THEN 0 ELSE timer ]
        r2 == IF spawn THEN Road_spawn_obstacle(r1, lane, rand) ELSE r1
    IN  [ r2 EXCEPT !.obstacles = UpdateObstacles(r2.obstacles, 0, dt, car_speed) ]

\* Road.update carrying the excess of the spawn timer over the interval
\* into the next interval.
Road_update_KeepExcess(r, dt, car_speed, lane, rand) ==
    LET offset == r.road_y_offset + car_speed * dt
        distance_increment == 3 * car_speed * dt
        timer == r.obstacle_spawn_timer + dt
        spawn == SpawnDue(r, dt)
        r1 == [ r EXCEPT
                  !.road_y_offset = IF offset > line_spacing * 100 THEN 0 ELSE offset,
                  !.distance_traveled = r.distance_traveled + distance_increment,
                  !.score = r.score + (distance_increment * r.multiplier) \div 2000,
                  !.obstacle_spawn_timer = IF spawn
                                           THEN timer - obstacle_spawn_interval
                                           ELSE timer ]
        r2 == IF spawn THEN Road_spawn_obstacle(r1, lane, rand) ELSE r1
    IN  [ r2 EXCEPT !.obstacles = UpdateObstacles(r2.obstacles, 0, dt, car_speed) ]

\* Road.update awarding 10 points for every obstacle that leaves the screen.
Road_update_AwardPassed(r, dt, car_speed, lane, rand) ==
    LET offset == r.road_y_offset + car_speed * dt
        distance_increment == 3 * car_speed * dt
        timer == r.obstacle_spawn_timer + dt
        spawn == SpawnDue(r, dt)
        r1 == [ r EXCEPT
                  !.road_y_offset = IF offset > line_spacing * 100 THEN 0 ELSE offset,
                  !.distance_traveled = r.distance_traveled + distance_increment,
                  !.score = r.score + (distance_increment * r.multiplier) \div 2000,
                  !.obstacle_spawn_timer = IF spawn THEN 0 ELSE timer ]
        r2 == IF spawn THEN Road_spawn_obstacle(r1, lane, rand) ELSE r1
        kept == UpdateObstacles(r2.obstacles, 0, dt, car_speed)
    IN  [ r2 EXCEPT !.obstacles = kept,
                    !.score = r2.score
                        + 10 * r2.multiplier * (Len(r2.obstacles) - Len(kept)) ]

\* Road.update starting distance_traveled over whenever the scroll offset
\* starts over.
Road_update_WrapDistance(r, dt, car_speed, lane, rand) ==
    LET offset == r.road_y_offset + car_speed * dt
        distance_increment == 3 * car_speed * dt
        timer == r.obstacle_spawn_timer + dt
        spawn == SpawnDue(r, dt)
        r1 == [ r EXCEPT
                  !.road_y_offset = IF offset > line_spacing * 100 THEN 0 ELSE offset,
                  !.distance_traveled = IF offset > line_spacing * 100
                                        THEN 0
                                        ELSE r.distance_traveled + distance_increment,
                  !.score = r.score + (distance_increment * r.multiplier) \div 2000,
                  !.obstacle_spawn_timer = IF spawn THEN 0 ELSE timer ]
        r2 == IF spawn THEN Road_spawn_obstacle(r1, lane, rand) ELSE r1
    IN  [ r2 EXCEPT !.obstacles = UpdateObstacles(r2.obstacles, 0, dt, car_speed) ]

\* Road.update scoring the whole units of the accumulated distance.
Road_update_ScoreAccumulated(r, dt, car_speed, lane, rand) ==
    LET offset == r.road_y_offset + car_speed * dt
        distance_increment == 3 * car_speed * dt
        timer == r.obstacle_spawn_timer + dt
        spawn == SpawnDue(r, dt)
        r1 == [ r EXCEPT
                  !.road_y_offset = IF offset > line_spacing * 100 THEN 0 ELSE offset,
                  !.distance_traveled = r.distance_traveled + distance_increment,
                  !.score = ((r.distance_traveled + distance_increment)
                               * r.multiplier) \div 2000,
                  !.obstacle_spawn_timer = IF spawn THEN 0 ELSE timer ]
        r2 == IF spawn THEN Road_spawn_obstacle(r1, lane, rand) ELSE r1
    IN  [ r2 EXCEPT !.obstacles = UpdateObstacles(r2.obstacles, 0, dt, car_speed) ]

\* Road.update(dt, car_speed) with the draws lane and rand used if an
\* obstacle is spawned.
Road_update(r, dt, car_speed, lane, rand) ==
    LET offset == r.road_y_offset + car_speed * dt
        distance_increment == 3 * car_speed * dt
        timer == r.obstacle_spawn_timer + dt
        spawn == SpawnDue(r, dt)
        r1 == [ r EXCEPT
                  !.road_y_offset = IF offset > line_spacing * 100 THEN 0 ELSE offset,
                  !.distance_traveled = r.distance_traveled + distance_increment,
                  !.score = r.score + (distance_increment * r.multiplier) \div 2000,
                  !.obstacle_spawn_timer = IF spawn THEN 0 ELSE timer ]
        r2 == IF spawn THEN Road_spawn_obstacle(r1, lane, rand) ELSE r1
    IN  [ r2 EXCEPT !.obstacles = UpdateObstacles(r2.obstacles, 0, dt, car_speed) ]

\* Road.award_points(obstacle) for obstacle i of the registry.
Road_award_points(r, i) ==
    IF ~r.obstacles[i].points_awarded
    THEN [ r EXCEPT !.score = r.score
                        + point_values(r.obstacles[i].obstacle_type) * r.multiplier,
                    !.obstacles[i].points_awarded = TRUE ]
    ELSE r

\* Road.check_collisions(car_rect): the loop over the registry, returning at
\* the first active obstacle whose rectangle collides.
RECURSIVE CollisionFrom(_, _, _)
CollisionFrom(list, i, car_rect) ==
    IF i > Len(list) THEN FALSE
    ELSE IF list[i].active /\ colliderect(car_rect, Obstacle_get_rect(list[i]))
         THEN TRUE
         ELSE CollisionFrom(list, i + 1, car_rect)

Road_check_collisions(r, car_rect) == CollisionFrom(r.obstacles, 1, car_rect)

\* Road.get_score()
Road_get_score(r) == r.score

\* Road.reset without obstacles.clear().
Road_reset_KeepObstacles(r) ==
    [ r EXCEPT !.distance_traveled = 0,
               !.obstacle_spawn_timer = 0, !.score = 0, !.multiplier = 1 ]

\* Road.reset setting multiplier to 0.
Road_reset_ZeroMultiplier(r) ==
    [ r EXCEPT !.obstacles = << >>, !.distance_traveled = 0,
               !.obstacle_spawn_timer = 0, !.score = 0, !.multiplier = 0 ]

\* Road.reset(): road_y_offset is not written; multiplier becomes 1.0.
Road_reset(r) ==
    [ r EXCEPT !.obstacles = << >>, !.distance_traveled = 0,
               !.obstacle_spawn_timer = 0, !.score = 0, !.multiplier = 1 ]

\* The road the game constructs: Road(600, 800).
NewRoad == Road_init

(***************************************************************************)
(* model_predictor.py: class ModelPredictor                                *)
(***************************************************************************)
\* action_map with a braking class in place of CENTER.
action_map_CenterBrakes(index) ==
    CASE index = 0 -> "SWIPE_LEFT"
      [] index = 1 -> "BRAKE"
      [] index = 2 -> "SWIPE_RIGHT"

\* ModelPredictor.action_map
action_map(index) ==
    CASE index = 0 -> "SWIPE_LEFT"
      [] index = 1 -> "CENTER"
      [] index = 2 -> "SWIPE_RIGHT"

\* predict reporting a failure as a command of its own.
ModelPredictor_predict_ErrorAction(draw) ==
    IF draw.ok
    THEN [ action |-> action_map(draw.index), confidence |-> draw.confidence ]
    ELSE [ action |-> "ERROR", confidence |-> 0 ]

\* ModelPredictor.predict(frame).  The classifier is outside the model: a
\* draw says whether preprocessing and the network ran without an exception
\* and, if so, the index of the largest output and its value (percent).
ModelPredictor_predict(draw) ==
    IF draw.ok
    THEN [ action |-> action_map(draw.index), confidence |-> draw.confidence ]
    ELSE [ action |-> "CENTER", confidence |-> 0 ]

(***************************************************************************)
(* main.py: class ModelControlledCarGame.  The world is the game's own     *)
(* fields together with its car and its road.                              *)
(***************************************************************************)
\* prediction_interval as passed by the program's entry point, in ms.
prediction_interval == 600

\* ModelControlledCarGame.__init__: the fields the simulation reads and
\* writes, and the loop variable running of run() with the position in the
\* loop body ("events": before handle_events, "update": before update,
\* "done": the loop has ended).
Game_init ==
    [ game_state |-> "PLAYING", pending_action |-> "CENTER",
      current_action |-> "CENTER", current_confidence |-> 0,
      time_since_last_prediction |-> 0, last_score |-> 0, high_score |-> 0,
      running |-> TRUE, pc |-> "events" ]

\* restart_game starting the high score over as well.
restart_game_ResetHighScore(w) ==
    [ game |-> [ w.game EXCEPT !.game_state = "PLAYING",
                               !.time_since_last_prediction = 0,
                               !.pending_action = "CENTER",
                               !.high_score = 0 ],
      car |-> Car_reset_position(w.car, 300, 650),
      road |-> Road_reset(w.road) ]

\* ModelControlledCarGame.restart_game()
restart_game(w) ==
    [ game |-> [ w.game EXCEPT !.game_state = "PLAYING",
                               !.time_since_last_prediction = 0,
                               !.pending_action = "CENTER" ],
      car |-> Car_reset_position(w.car, 300, 650),
      road |-> Road_reset(w.road) ]

\* handle_events restarting the game at an R key whatever game_state is.
RECURSIVE handle_events_AlwaysRestart(_, _)
handle_events_AlwaysRestart(w, events) ==
    IF events = << >> THEN [ world |-> w, running |-> TRUE ]
    ELSE LET e == Head(events)
         IN  IF e = "QUIT" \/ e = "ESCAPE"
             THEN [ world |-> w, running |-> FALSE ]
             ELSE IF e = "R"
                  THEN handle_events_AlwaysRestart(restart_game(w), Tail(events))
                  ELSE handle_events_AlwaysRestart(w, Tail(events))

\* ModelControlledCarGame.handle_events(events): the events are handled in
\* order; QUIT and the ESCAPE key return False at once, the R key restarts
\* the game if it is over, any other event is skipped.
RECURSIVE handle_events(_, _)
handle_events(w, events) ==
    IF events = << >> THEN [ world |-> w, running |-> TRUE ]
    ELSE LET e == Head(events)
         IN  IF e = "QUIT" \/ e = "ESCAPE"
             THEN [ world |-> w, running |-> FALSE ]
             ELSE IF e = "R" /\ w.game.game_state = "GAME_OVER"
                  THEN handle_events(restart_game(w), Tail(events))
                  ELSE handle_events(w, Tail(events))

\* update(dt) with the collision query made before the road update.
Game_update_CheckFirst(w, dt, draw, lane, rand) ==
    IF w.game.game_state = "PLAYING"
    THEN LET t == w.game.time_since_last_prediction + dt
             p == ModelPredictor_predict(draw)
             g1 == IF t >= prediction_interval
                   THEN [ w.game EXCEPT !.current_action = p.action,
                                        !.current_confidence = p.confidence,
                                        !.pending_action = p.action,
                                        !.time_since_last_prediction = 0 ]
                   ELSE [ w.game EXCEPT !.time_since_last_prediction = t ]
             c1 == Car_update(Car_update_controls(w.car, g1.pending_action), dt)
             collision == Road_check_collisions(w.road, Car_get_rect(c1))
             r1 == Road_update(w.road, dt, c1.velocity, lane, rand)
             g2 == IF collision
                   THEN [ g1 EXCEPT
                            !.game_state = "GAME_OVER",
                            !.high_score = IF Road_get_score(r1) > g1.high_score
                                           THEN Road_get_score(r1)
                                           ELSE g1.high_score ]
                   ELSE g1
         IN  [ game |-> g2, car |-> c1, road |-> r1 ]
    ELSE w

\* update(dt) without the test of game_state.
Game_update_NoStateTest(w, dt, draw, lane, rand) ==
    LET t == w.game.time_since_last_prediction + dt
        p == ModelPredictor_predict(draw)
        g1 == IF t >= prediction_interval
              THEN [ w.game EXCEPT !.current_action = p.action,
                                   !.current_confidence = p.confidence,
                                   !.pending_action = p.action,
                                   !.time_since_last_prediction = 0 ]
              ELSE [ w.game EXCEPT !.time_since_last_prediction = t ]
        c1 == Car_update(Car_update_controls(w.car, g1.pending_action), dt)
        r1 == Road_update(w.road, dt, c1.velocity, lane, rand)
        collision == Road_check_collisions(r1, Car_get_rect(c1))
        g2 == IF collision
              THEN [ g1 EXCEPT
                       !.game_state = "GAME_OVER",
                       !.high_score = IF Road_get_score(r1) > g1.high_score
                                      THEN Road_get_score(r1)
                                      ELSE g1.high_score ]
              ELSE g1
    IN  [ game |-> g2, car |-> c1, road |-> r1 ]

\* update(dt) advancing the road before the car.
Game_update_RoadFirst(w, dt, draw, lane, rand) ==
    IF w.game.game_state = "PLAYING"
    THEN LET t == w.game.time_since_last_prediction + dt
             p == ModelPredictor_predict(draw)
             g1 == IF t >= prediction_interval
                   THEN [ w.game EXCEPT !.current_action = p.action,
                                        !.current_confidence = p.confidence,
                                        !.pending_action = p.action,
                                        !.time_since_last_prediction = 0 ]
                   ELSE [ w.game EXCEPT !.time_since_last_prediction = t ]
             r1 == Road_update(w.road, dt, w.car.velocity, lane, rand)
             c1 == Car_update(Car_update_controls(w.car, g1.pending_action), dt)
             collision == Road_check_collisions(r1, Car_get_rect(c1))
             g2 == IF collision
                   THEN [ g1 EXCEPT
                            !.game_state = "GAME_OVER",
                            !.high_score = IF Road_get_score(r1) > g1.high_score
                                           THEN Road_get_score(r1)
                                           ELSE g1.high_score ]
                   ELSE g1
         IN  [ game |-> g2, car |-> c1, road |-> r1 ]
    ELSE w

\* update(dt) passing a prediction to the car only in the tick that
\* receives it, and CENTER in the ticks between predictions.
Game_update_ApplyOnce(w, dt, draw, lane, rand) ==
    IF w.game.game_state = "PLAYING"
    THEN LET t == w.game.time_since_last_prediction + dt
             p == ModelPredictor_predict(draw)
             g1 == IF t >= prediction_interval
                   THEN [ w.game EXCEPT !.current_action = p.action,
                                        !.current_confidence = p.confidence,
                                        !.pending_action = p.action,
                                        !.time_since_last_prediction = 0 ]
                   ELSE [ w.game EXCEPT !.time_since_last_prediction = t ]
             c1 == Car_update(Car_update_controls(w.car,
                                  IF t >= prediction_interval
                                  THEN p.action ELSE "CENTER"), dt)
             r1 == Road_update(w.road, dt, c1.velocity, lane, rand)
             collision == Road_check_collisions(r1, Car_get_rect(c1))
             g2 == IF collision
                   THEN [ g1 EXCEPT
                            !.game_state = "GAME_OVER",
                            !.high_score = IF Road_get_score(r1) > g1.high_score
                                           THEN Road_get_score(r1)
                                           ELSE g1.high_score ]
                   ELSE g1
         IN  [ game |-> g2, car |-> c1, road |-> r1 ]
    ELSE w

\* update carrying the time beyond the prediction interval over to the
\* next interval.
Game_update_KeepRemainder(w, dt, draw, lane, rand) ==
    IF w.game.game_state = "PLAYING"
    THEN LET t == w.game.time_since_last_prediction + dt
             p == ModelPredictor_predict(draw)
             g1 == IF t >= prediction_interval
                   THEN [ w.game EXCEPT !.current_action = p.action,
                                        !.current_confidence = p.confidence,
                                        !.pending_action = p.action,
                                        !.time_since_last_prediction =
                                            t - prediction_interval ]
                   ELSE [ w.game EXCEPT !.time_since_last_prediction = t ]
             c1 == Car_update(Car_update_controls(w.car, g1.pending_action), dt)
             r1 == Road_update(w.road, dt, c1.velocity, lane, rand)
             collision == Road_check_collisions(r1, Car_get_rect(c1))
             g2 == IF collision
                   THEN [ g1 EXCEPT
                            !.game_state = "GAME_OVER",
                            !.high_score = IF Road_get_score(r1) > g1.high_score
                                           THEN Road_get_score(r1)
                                           ELSE g1.high_score ]
                   ELSE g1
         IN  [ game |-> g2, car |-> c1, road |-> r1 ]
    ELSE w

\* ModelControlledCarGame.update(dt), with the draw of the predictor and the
\* draws of spawn_obstacle.
Game_update(w, dt, draw, lane, rand) ==
    IF w.game.game_state = "PLAYING"
    THEN LET t == w.game.time_since_last_prediction + dt
             p == ModelPredictor_predict(draw)
             g1 == IF t >= prediction_interval
                   THEN [ w.game EXCEPT !.current_action = p.action,
                                        !.current_confidence = p.confidence,
                                        !.pending_action = p.action,
                                        !.time_since_last_prediction = 0 ]
                   ELSE [ w.game EXCEPT !.time_since_last_prediction = t ]
             c1 == Car_update(Car_update_controls(w.car, g1.pending_action), dt)
             r1 == Road_update(w.road, dt, c1.velocity, lane, rand)
             collision == Road_check_collisions(r1, Car_get_rect(c1))
             g2 == IF collision
                   THEN [ g1 EXCEPT
                            !.game_state = "GAME_OVER",
                            !.high_score = IF Road_get_score(r1) > g1.high_score
                                           THEN Road_get_score(r1)
                                           ELSE g1.high_score ]
                   ELSE g1
         IN  [ game |-> g2, car |-> c1, road |-> r1 ]
    ELSE w

(***************************************************************************)
(* History kept by the model (not program state):                          *)
(*   op             the last operation performed                           *)
(*   last           the command of the most recent update_controls call    *)
(*                  since construction or reset                            *)
(*   repeat         whether that call repeated the call before it          *)
(*   target_before  target_lane before the last operation (1 after reset)  *)
(*   lane_before    lane before the last operation (1 after reset)         *)
(*   brake_ticks    the length of the current run of braking ticks         *)
(*   from_cruise    whether that run started at velocity default_speed     *)
(*   accel_ticks    the length of the current run of ticks without         *)
(*                  braking, if it started at velocity 0 (else 0)          *)
(***************************************************************************)
NoCall == "<none>"

InitHist ==
    [ op |-> "init", last |-> NoCall, repeat |-> FALSE, target_before |-> 1,
      brake_ticks |-> 0, from_cruise |-> FALSE, accel_ticks |-> 0,
      lane_before |-> 1 ]

\* A command outside the vocabulary replaced by CENTER.
Coerce(cmd) == IF cmd \in KnownCommands THEN cmd ELSE "CENTER"

(***************************************************************************)
(* The vehicle driven directly through its interface.                      *)
(***************************************************************************)
InitCar ==
    /\ car = NewCar
    /\ car_ref = NewCar
    /\ road = NewRoad
    /\ game = Game_init
    /\ hist = InitHist

\* car.update_controls(cmd); car_ref gets the same call with a command
\* outside the vocabulary replaced by CENTER.
UpdateControls(cmd) ==
    /\ car' = Car_update_controls(car, cmd)
    /\ car_ref' = Car_update_controls(car_ref, Coerce(cmd))
    /\ hist' = [ hist EXCEPT
                   !.op = "update_controls", !.last = cmd,
                   !.repeat = (hist.last = cmd),
                   !.target_before = car.target_lane,
                   !.lane_before = car.lane,
                   !.brake_ticks = IF cmd = "BRAKE" THEN hist.brake_ticks ELSE 0,
                   !.from_cruise = (cmd = "BRAKE" /\ hist.from_cruise) ]
    /\ UNCHANGED <<road, game>>

\* car.update(dt)
CarUpdate(dt) ==
    /\ car' = Car_update(car, dt)
    /\ car_ref' = Car_update(car_ref, dt)
    /\ hist' = [ hist EXCEPT
                   !.op = "update",
                   !.target_before = car.target_lane,
                   !.lane_before = car.lane,
                   !.brake_ticks = IF car.braking
                                   THEN Min(MaxBrakeTicks, hist.brake_ticks + 1)
                                   ELSE 0,
                   !.from_cruise = /\ car.braking
                                   /\ IF hist.brake_ticks > 0
                                      THEN hist.from_cruise
                                      ELSE car.velocity = default_speed,
                   !.accel_ticks = IF car.braking THEN 0
                                   ELSE IF hist.accel_ticks > 0 \/ car.velocity = 0
                                        THEN Min(MaxAccelTicks, hist.accel_ticks + 1)
                                        ELSE 0 ]
    /\ UNCHANGED <<road, game>>

\* car.reset_position(300, 650)
ResetPosition ==
    /\ car' = Car_reset_position(car, 300, 650)
    /\ car_ref' = Car_reset_position(car_ref, 300, 650)
    /\ hist' = [ hist EXCEPT !.op = "reset_position", !.last = NoCall,
                             !.repeat = FALSE, !.target_before = 1,
                             !.brake_ticks = 0, !.from_cruise = FALSE,
                             !.accel_ticks = 0, !.lane_before = 1 ]
    /\ UNCHANGED <<road, game>>

NextCar ==
    \/ \E cmd \in CommandStrings : UpdateControls(cmd)
    \/ \E dt \in CarDtSet : CarUpdate(dt)
    \/ ResetPosition

SpecCar == InitCar /\ [][NextCar]_vars

(***************************************************************************)
(* The road driven directly through its interface.  History: the last      *)
(* operation with its arguments, the obstacle a Road.update created (as    *)
(* created, before it is advanced) with the draws that made it, the        *)
(* number of obstacles it removed, and the number of Road.update calls so  *)
(* far.                                                                    *)
(***************************************************************************)
InitRoadHist ==
    [ op |-> "init", dt |-> 0, v |-> 0, spawned |-> << >>, lane |-> 0,
      rand |-> 0, removed |-> 0, ticks |-> 0 ]

InitRoad ==
    /\ car = NewCar
    /\ car_ref = NewCar
    /\ road = NewRoad
    /\ game = Game_init
    /\ hist = InitRoadHist

\* The obstacle spawn_obstacle appends to r for the draws lane and rand.
Spawned(r, lane, rand) ==
    LET r2 == Road_spawn_obstacle(r, lane, rand)
    IN  <<r2.obstacles[Len(r2.obstacles)]>>

\* road.update(dt, v)
RoadUpdate(dt, v, lane, rand) ==
    /\ hist.ticks < MaxRoadTicks
    /\ road' = Road_update(road, dt, v, lane, rand)
    /\ LET new == IF SpawnDue(road, dt) THEN Spawned(road, lane, rand) ELSE << >>
       IN  hist' = [ hist EXCEPT
                       !.op = "road_update", !.dt = dt, !.v = v,
                       !.spawned = new,
                       !.lane = IF new = << >> THEN 0 ELSE lane,
                       !.rand = IF new = << >> THEN 0 ELSE rand,
                       !.removed = Len(road.obstacles) + Len(new)
                                     - Len(road'.obstacles),
                       !.ticks = hist.ticks + 1 ]
    /\ UNCHANGED <<car, car_ref, game>>

\* road.reset()
RoadReset ==
    /\ road' = Road_reset(road)
    /\ hist' = [ hist EXCEPT !.op = "road_reset", !.dt = 0, !.v = 0,
                             !.spawned = << >>, !.lane = 0, !.rand = 0,
                             !.removed = 0 ]
    /\ UNCHANGED <<car, car_ref, game>>

RoadUpdateStep ==
    \E dt \in RoadDtSet, v \in RoadVSet :
      \E lane \in IF SpawnDue(road, dt) THEN LaneDraws ELSE {0} :
        \E rand \in IF SpawnDue(road, dt) THEN RandDraws ELSE {0} :
          RoadUpdate(dt, v, lane, rand)

NextRoad == RoadUpdateStep \/ RoadReset

SpecRoad == InitRoad /\ [][NextRoad]_vars

(***************************************************************************)
(* The game loop, run().  Each frame handles the frame's events and then   *)
(* calls update(dt); the loop ends after the update of the frame in which  *)
(* handle_events returned False.  History: the last operation, game_state  *)
(* before it, whether the frame's events held an R key before any QUIT or  *)
(* ESCAPE, the number of frames so far, and the command most recently      *)
(* received from the predictor (CENTER before the first one and after a    *)
(* restart), whether the most recent call of the predictor failed, the     *)
(* tick length of the last update, whether the last operation called the   *)
(* predictor, and the sum of the tick lengths of the updates made since    *)
(* the last call of the predictor (or since the start or the last          *)
(* restart).                                                               *)
(***************************************************************************)
InitGameHist ==
    [ op |-> "init", state_before |-> "PLAYING", r_pressed |-> FALSE, ticks |-> 0,
      held |-> "CENTER", failed |-> FALSE, dt |-> 0, queried |-> FALSE,
      elapsed |-> 0 ]

Init ==
    /\ car = NewCar
    /\ car_ref = NewCar
    /\ road = NewRoad
    /\ game = Game_init
    /\ hist = InitGameHist

world == [ game |-> game, car |-> car, road |-> road ]

EventLists == UNION { [ 1..n -> EventKinds ] : n \in 0..MaxEvents }

\* An R key comes before any QUIT or ESCAPE in the list.
RECURSIVE RPressed(_)
RPressed(events) ==
    IF events = << >> THEN FALSE
    ELSE IF Head(events) \in {"QUIT", "ESCAPE"} THEN FALSE
    ELSE IF Head(events) = "R" THEN TRUE
    ELSE RPressed(Tail(events))

\* running = self.handle_events(events)
HandleEvents(events) ==
    /\ game.pc = "events"
    /\ hist.ticks < MaxGameTicks
    /\ LET res == handle_events(world, events)
       IN  /\ game' = [ res.world.game EXCEPT !.running = res.running,
                                              !.pc = "update" ]
           /\ car' = res.world.car
           /\ road' = res.world.road
    /\ hist' = [ hist EXCEPT !.op = "handle_events",
                             !.state_before = game.game_state,
                             !.r_pressed = RPressed(events),
                             !.held = IF game.game_state = "GAME_OVER"
                                         /\ RPressed(events)
                                      THEN "CENTER"
                                      ELSE hist.held,
                             !.queried = FALSE,
                             !.elapsed = IF game.game_state = "GAME_OVER"
                                            /\ RPressed(events)
                                         THEN 0
                                         ELSE hist.elapsed ]
    /\ UNCHANGED car_ref

\* The classifier is called in a frame only if the game is being played
\* and the prediction interval has passed.
PredictionDue(dt) ==
    /\ game.game_state = "PLAYING"
    /\ game.time_since_last_prediction + dt >= prediction_interval

\* update(dt) called the predictor: what it leaves in the game's fields
\* depends on what the predictor returns.
PredictorCalled(dt, lane, rand) ==
    Game_update(world, dt, [ NoPrediction EXCEPT !.ok = TRUE, !.confidence = 90 ],
                lane, rand).game
        # Game_update(world, dt, NoPrediction, lane, rand).game

\* self.update(dt), then the test of the while loop.
Update(dt, draw, lane, rand) ==
    /\ game.pc = "update"
    /\ LET w2 == Game_update(world, dt, draw, lane, rand)
       IN  /\ game' = [ w2.game EXCEPT
                          !.pc = IF game.running THEN "events" ELSE "done" ]
           /\ car' = w2.car
           /\ road' = w2.road
    /\ LET called == PredictorCalled(dt, lane, rand) IN
       hist' = [ hist EXCEPT !.op = "update",
                             !.state_before = game.game_state,
                             !.r_pressed = FALSE,
                             !.ticks = hist.ticks + 1,
                             !.held = IF PredictionDue(dt)
                                      THEN ModelPredictor_predict(draw).action
                                      ELSE hist.held,
                             !.failed = IF PredictionDue(dt)
                                        THEN ~draw.ok
                                        ELSE hist.failed,
                             !.dt = dt,
                             !.queried = called,
                             !.elapsed = IF called THEN 0
                                         ELSE hist.elapsed + dt ]
    /\ UNCHANGED car_ref

\* spawn_obstacle draws only if the game is being played and the spawn
\* interval has passed.
GameSpawnDue(dt) == game.game_state = "PLAYING" /\ SpawnDue(road, dt)

\* One frame's events, and one frame's update with its tick length and the
\* draws it makes.
EventsStep == \E events \in EventLists : HandleEvents(events)

UpdateStep ==
    \E dt \in GameDtSet :
      \E draw \in IF PredictionDue(dt) THEN PredictDraws ELSE {NoPrediction} :
        \E lane \in IF GameSpawnDue(dt) THEN LaneDraws ELSE {0} :
          \E rand \in IF GameSpawnDue(dt) THEN GameRandDraws ELSE {0} :
            Update(dt, draw, lane, rand)

Next == EventsStep \/ UpdateStep

Spec == Init /\ [][Next]_vars

(***************************************************************************)
(* The game loop followed over several rounds: the player never quits, and *)
(* the events of a frame are an R key or nothing.                          *)
(***************************************************************************)
\* running = self.handle_events(events), in a run of MaxRoundTicks frames.
RoundHandleEvents(events) ==
    /\ game.pc = "events"
    /\ hist.ticks < MaxRoundTicks
    /\ LET res == handle_events(world, events)
       IN  /\ game' = [ res.world.game EXCEPT !.running = res.running,
                                              !.pc = "update" ]
           /\ car' = res.world.car
           /\ road' = res.world.road
    /\ hist' = [ hist EXCEPT !.op = "handle_events",
                             !.state_before = game.game_state,
                             !.r_pressed = RPressed(events),
                             !.held = IF game.game_state = "GAME_OVER"
                                         /\ RPressed(events)
                                      THEN "CENTER"
                                      ELSE hist.held,
                             !.queried = FALSE,
                             !.elapsed = IF game.game_state = "GAME_OVER"
                                            /\ RPressed(events)
                                         THEN 0
                                         ELSE hist.elapsed ]
    /\ UNCHANGED car_ref

RoundEventsStep == \E events \in RoundEvents : RoundHandleEvents(events)

NextRounds == RoundEventsStep \/ UpdateStep

SpecRounds == Init /\ [][NextRounds]_vars

(***************************************************************************)
(* Properties of the vehicle (checked under SpecCar).                      *)
(***************************************************************************)
Swipes == {"SWIPE_LEFT", "SWIPE_RIGHT"}

\* C1: in every state reachable by update_controls, update and
\* reset_position calls, lane and target_lane are lane indices 0, 1 or 2.
C1_LanesInRange ==
    /\ car.lane \in {0, 1, 2}
    /\ car.target_lane \in {0, 1, 2}

\* A new SWIPE_LEFT arrived with target_lane already 0, and one has seen
\* the car settled in lane 2.
C1_Witness ==
    /\ hist.op = "update_controls" /\ hist.last = "SWIPE_LEFT"
    /\ ~hist.repeat /\ hist.target_before = 0 /\ car.target_lane = 0
    /\ car.lane = 2

\* C2: a SWIPE_LEFT or SWIPE_RIGHT call that repeats the previous
\* update_controls call (update ticks may lie between the two) leaves
\* target_lane as it was before the call.
C2_Debounce ==
    (hist.op = "update_controls" /\ hist.repeat /\ hist.last \in Swipes)
        => car.target_lane = hist.target_before

\* SWIPE_LEFT repeated with lane 0 still free to the left: only the
\* debounce keeps target_lane at 1.
C2_Witness ==
    /\ hist.op = "update_controls" /\ hist.repeat
    /\ hist.last = "SWIPE_LEFT"
    /\ hist.target_before = 1 /\ car.target_lane = 1

\* C3: velocity stays within 0 .. max_velocity.
C3_VelocityInRange ==
    /\ car.velocity >= 0
    /\ car.velocity <= max_velocity

\* A braking tick taken at velocity 0, in a run that started at cruise.
C3_Witness ==
    /\ hist.op = "update" /\ hist.from_cruise
    /\ hist.brake_ticks = MaxBrakeTicks /\ car.velocity = 0

\* C4: a braking tick sets velocity to max(0, velocity - 0.8) whatever dt
\* is, and a run of braking ticks that started at velocity 3 has velocity 0
\* from its 4th tick on.
C4_BrakeStep ==
    /\ [][(hist'.op = "update" /\ car.braking)
            => car'.velocity = Max(0, car.velocity - 8)]_vars
    /\ []((hist.from_cruise /\ hist.brake_ticks >= 4) => car.velocity = 0)

\* The 4th braking tick of a run from velocity 3 has just been taken.
C4_Witness ==
    /\ hist.op = "update" /\ hist.from_cruise
    /\ hist.brake_ticks = 4 /\ car.velocity = 0 /\ car.braking

\* The fields update_controls and update compute for the caller.
Motion(c) == <<c.braking, c.target_lane, c.lane, c.x, c.velocity>>

\* C10: replacing every command outside the vocabulary (NO_ACTION among
\* them) by CENTER gives the same braking, target_lane, lane, x and velocity
\* after that call and after every later call.
C10_UnknownIsCenter == Motion(car) = Motion(car_ref)

\* NO_ACTION was passed where the reference got CENTER, and a tick
\* has moved the car out of the center lane since.
C10_Witness ==
    /\ hist.op = "update"
    /\ car.last_command = "NO_ACTION" /\ car_ref.last_command = "CENTER"
    /\ car.x # LaneCenter(1)

\* C11: update_controls("BRAKE") sets braking and leaves target_lane, lane,
\* x and velocity as they were, whatever the state and the previous command.
C11_BrakeFrame ==
    [][(hist'.op = "update_controls" /\ hist'.last = "BRAKE")
        => /\ car'.braking
           /\ car'.target_lane = car.target_lane
           /\ car'.lane = car.lane
           /\ car'.x = car.x
           /\ car'.velocity = car.velocity]_vars

\* BRAKE has arrived after another command, with the car at speed and on
\* its way to lane 0.
C11_Witness ==
    /\ hist.op = "update_controls" /\ hist.last = "BRAKE" /\ ~hist.repeat
    /\ car.braking /\ car.velocity = default_speed
    /\ car.target_lane = 0 /\ car.x > LaneCenter(0) /\ car.x < LaneCenter(1)

\* The target lane the claim C19 gives for command c on a car whose
\* last_command is last and whose target lane is t.
C19_Target(c, last, t) ==
    IF c = last THEN t
    ELSE IF c = "SWIPE_LEFT" THEN Max(0, t - 1)
    ELSE IF c = "SWIPE_RIGHT" THEN Min(2, t + 1)
    ELSE t

\* C19: update_controls(c) with c different from last_command moves
\* target_lane one lane left for SWIPE_LEFT (not below 0), one lane right
\* for SWIPE_RIGHT (not above 2) and leaves it for any other c; with c equal
\* to last_command it leaves it.  target_lane changes by at most 1 per call.
C19_RisingEdge ==
    [][hist'.op = "update_controls"
        => /\ car'.target_lane =
                 C19_Target(hist'.last, car.last_command, car.target_lane)
           /\ Abs(car'.target_lane - car.target_lane) <= 1]_vars

\* A new SWIPE_RIGHT has moved target_lane from 1 to 2 while the car was
\* still settled in lane 0.
C19_Witness ==
    /\ hist.op = "update_controls" /\ hist.last = "SWIPE_RIGHT" /\ ~hist.repeat
    /\ hist.target_before = 1 /\ car.target_lane = 2 /\ car.lane = 0

\* C20: after update_controls(c) last_command is c, for every c; and a
\* SWIPE_LEFT call whose preceding call was not SWIPE_LEFT (BRAKE, CENTER or
\* anything else) moves target_lane one lane left, not below 0.
C20_LastCommand ==
    /\ [](hist.op = "update_controls" => car.last_command = hist.last)
    /\ [][(hist'.op = "update_controls" /\ hist'.last = "SWIPE_LEFT"
             /\ hist.last # "SWIPE_LEFT")
            => car'.target_lane = Max(0, car.target_lane - 1)]_vars

\* A second SWIPE_LEFT has taken effect: target_lane went from 1 to 0 with
\* the car still counted in lane 2, where it last settled, and slowed down
\* by braking ticks.
C20_Witness ==
    /\ hist.op = "update_controls" /\ hist.last = "SWIPE_LEFT" /\ ~hist.repeat
    /\ hist.target_before = 1 /\ car.target_lane = 0 /\ car.lane = 2
    /\ car.velocity \in {6, 14, 22}

\* C21: after update_controls(c) braking is true exactly if c is BRAKE, and
\* no other operation (update, reset_position) changes braking.
C21_BrakingWrittenByControls ==
    /\ [](hist.op = "update_controls" => (car.braking <=> hist.last = "BRAKE"))
    /\ [][hist'.op # "update_controls" => car'.braking = car.braking]_vars

\* Ticks have brought the braking car to a standstill on its way to another
\* lane, and further ticks at velocity 0 have left braking asserted.
C21_Witness ==
    /\ hist.op = "update" /\ car.braking /\ car.velocity = 0
    /\ hist.brake_ticks >= 5 /\ car.lane # car.target_lane

\* C22: a tick without braking sets velocity to min(3, velocity + 0.2) and
\* never lowers it; velocity never exceeds 3; 15 ticks without braking from
\* velocity 0 reach 3, and further such ticks stay there.
C22_Cruise ==
    /\ [][(hist'.op = "update" /\ ~car.braking)
            => /\ car'.velocity = Min(30, car.velocity + 2)
               /\ car'.velocity >= car.velocity]_vars
    /\ [](car.velocity <= 30)
    /\ []((hist.accel_ticks > 0 /\ hist.accel_ticks < 15)
            => car.velocity = 2 * hist.accel_ticks)
    /\ [](hist.accel_ticks >= 15 => car.velocity = 30)

\* The 16th tick without braking since velocity 0 has been taken.
C22_Witness ==
    /\ hist.op = "update" /\ hist.accel_ticks = 16 /\ car.velocity = 30

\* The number of ticks the car needs to settle in its target lane: one
\* per 10 units of distance to the lane center and, if lane is not yet
\* target_lane, one more that finds the car at the center and sets lane.
C23_TicksToSettle(c) ==
    Abs(c.x - (c.target_lane * 200 + 100)) \div 10
        + (IF c.lane = c.target_lane THEN 0 ELSE 1)

\* C23: x is always a whole number of steps of 10 from the center of
\* target_lane and at most 41 ticks from settling there; every update tick,
\* braking or not and at any velocity, brings the car one tick closer until
\* x = target_lane*200+100 and lane = target_lane, and then leaves x and lane
\* fixed.  target_lane is changed by update_controls only.
C23_LateralConvergence ==
    /\ []((car.x - (car.target_lane * 200 + 100)) % 10 = 0)
    /\ [](C23_TicksToSettle(car) <= 41)
    /\ [][hist'.op = "update"
            => /\ car'.target_lane = car.target_lane
               /\ C23_TicksToSettle(car') = Max(0, C23_TicksToSettle(car) - 1)
               /\ (C23_TicksToSettle(car) = 0
                     => car'.x = car.x /\ car'.lane = car.lane)]_vars

\* The car, settled in lane 2 and then sent to lane 0 (41 ticks from
\* settling), has made the first step of 10 in a braking tick that ended
\* at velocity 0.
C23_Witness ==
    /\ hist.op = "update" /\ C23_TicksToSettle(car) = 40
    /\ car.lane = 2 /\ car.target_lane = 0
    /\ car.braking /\ car.velocity = 0

\* C24: an update tick leaves y, width, height, target_lane, braking and
\* last_command as they were; the vehicle box spans 615 to 685 vertically in
\* every state.
C24_UpdateFrame ==
    /\ [][hist'.op = "update"
            => /\ car'.y = car.y /\ car'.width = car.width
               /\ car'.height = car.height
               /\ car'.target_lane = car.target_lane
               /\ car'.braking = car.braking
               /\ car'.last_command = car.last_command]_vars
    /\ [](Car_get_rect(car).top = 615 /\ Car_get_rect(car).h = 70)

\* Ticks have changed velocity, x and lane: the car stands in lane 2,
\* accelerating again after a braking phase.
C24_Witness ==
    /\ hist.op = "update" /\ car.lane = 2 /\ car.velocity \in 1..29
    /\ ~car.braking /\ car.y = 650

\* C31: in every state reachable by update_controls, update and
\* reset_position calls, x is a multiple of 10 between the centers of lane 0
\* and lane 2 (100 <= x <= 500), also when target_lane is reversed in the
\* middle of a transition.
C31_XOnGrid ==
    /\ car.x % lane_change_speed = 0
    /\ car.x >= LaneCenter(0) /\ car.x <= LaneCenter(2)

\* The car left lane 1 for lane 0, was sent back to lane 1 by a right swipe
\* when it had gone as far as x = 200, and has made the first step back.
C31_Witness ==
    /\ hist.op = "update" /\ hist.last = "SWIPE_RIGHT"
    /\ car.lane = 1 /\ car.target_lane = 1 /\ car.x = 210

\* C32: lane is assigned only by the update tick that finds x at the
\* center of target_lane (and by reset_position, which puts the car back in
\* lane 1 at x = 300): update_controls leaves lane alone; right after a
\* step that changed lane, x = lane*200+100 and lane = target_lane; an
\* update tick either moves x by the step of 10 and keeps lane, or keeps x
\* at the center of target_lane and sets lane to target_lane.
C32_LaneOnSnap ==
    [][/\ (hist'.op = "update_controls" => car'.lane = car.lane)
       /\ (car'.lane # car.lane
             => /\ hist'.op \in {"update", "reset_position"}
                /\ car'.x = LaneCenter(car'.lane)
                /\ car'.lane = car'.target_lane)
       /\ (hist'.op = "update"
             => \/ /\ Abs(car'.x - car.x) = lane_change_speed
                   /\ car'.lane = car.lane
                \/ /\ car'.x = car.x /\ car.x = LaneCenter(car.target_lane)
                   /\ car'.lane = car.target_lane)]_vars

\* An update tick has just changed lane from 1 to 2, with the car at the
\* center of lane 2.
C32_Witness ==
    /\ hist.op = "update" /\ hist.lane_before = 1 /\ car.lane = 2
    /\ car.x = LaneCenter(2) /\ car.target_lane = 2

\* C17 as stated: after reset_position, whatever calls came before, the
\* vehicle has the values of a freshly constructed vehicle: x 300,
\* velocity 0, lane 1, target_lane 1, braking false and last_command NONE.
C17_Original ==
    hist.op = "reset_position"
        => /\ car.x = LaneCenter(1) /\ car.velocity = 0
           /\ car.lane = 1 /\ car.target_lane = 1
           /\ car.braking = NewCar.braking
           /\ car.last_command = NewCar.last_command

(***************************************************************************)
(* Properties of the road (checked under SpecRoad).                        *)
(***************************************************************************)
\* An obstacle moved down by v*dt*150 pixels (y is in 1/200 pixel, v in
\* tenths, dt in ms).
C5_Moved(o, dt, v) == [ o EXCEPT !.y = o.y + 3 * v * dt ]

C5_OnScreen(o) == o.y <= 800 * 200

C5_Expected(list, dt, v) ==
    SelectSeq([ i \in 1..Len(list) |-> C5_Moved(list[i], dt, v) ], C5_OnScreen)

\* C5: Road.update(dt, v) leaves in the registry exactly the obstacles it
\* held before, followed by the one spawned in this update, each moved by
\* v*dt*150 in y and otherwise unchanged, without those whose new y is
\* above 800; so every obstacle of the registry is active with y <= 800.
C5_AdvanceAndExpire ==
    /\ [][hist'.op = "road_update"
            => road'.obstacles =
                 C5_Expected(road.obstacles \o hist'.spawned, hist'.dt, hist'.v)]_vars
    /\ [](\A i \in 1..Len(road.obstacles) :
            road.obstacles[i].active /\ C5_OnScreen(road.obstacles[i]))

\* One update, with the vehicle moving, has spawned an obstacle, removed
\* another and kept one.
C5_Witness ==
    /\ hist.op = "road_update" /\ hist.v > 0
    /\ hist.spawned # << >> /\ hist.removed > 0
    /\ Len(road.obstacles) > 0

\* The answer of check_collisions for the vehicle at x = cx (y = 650).
CollisionAt(cx) == Road_check_collisions(road, Car_get_rect([ car EXCEPT !.x = cx ]))

\* The boxes of the claim: centered at (cx, cy) with size 45 x 70 and at
\* (ox, oy) with size 50 x 80, oy in 1/200 pixel; they intersect when they
\* overlap in an area (the centers are closer than half the sum of the
\* widths, 47.5, and of the heights, 75).
C6_BoxesIntersect(cx, cy, ox, oy) ==
    /\ 2 * Abs(cx - ox) < 45 + 50
    /\ 2 * Abs(cy * 200 - oy) < (70 + 80) * 200

\* C6 as stated: check_collisions reports a collision exactly when the box
\* of some active obstacle intersects the vehicle box.
C6_Original ==
    \A cx \in CheckXs :
        CollisionAt(cx) <=>
            \E i \in 1..Len(road.obstacles) :
                /\ road.obstacles[i].active
                /\ C6_BoxesIntersect(cx, car.y, road.obstacles[i].x,
                                     road.obstacles[i].y)

\* C6 (amended): check_collisions reports a collision exactly when some
\* active obstacle at (ox, oy) has -48 < x - ox < 47 and 576 <= oy < 725 for
\* the vehicle at (x, 650): the obstacle's pixel rectangle, whose top is
\* oy - 40 with the fraction dropped, shares a pixel with the vehicle's.
C6_PixelRects ==
    \A cx \in CheckXs :
        CollisionAt(cx) <=>
            \E i \in 1..Len(road.obstacles) :
                /\ road.obstacles[i].active
                /\ cx - road.obstacles[i].x > -48
                /\ cx - road.obstacles[i].x < 47
                /\ road.obstacles[i].y >= 576 * 200
                /\ road.obstacles[i].y < 725 * 200

\* A collision is reported for the vehicle at the center of lane 1 and none
\* for the vehicle at the center of lane 0, with one obstacle on the road.
C6_Witness ==
    /\ Len(road.obstacles) = 1
    /\ CollisionAt(300) /\ ~CollisionAt(100)

\* C25: Road.update(dt, v) adds d = v*dt*15 to distance_traveled and the
\* integer part of d * multiplier to score (d is in 1/2000 here, so the
\* integer n added satisfies n*2000 <= d*multiplier < (n+1)*2000).
C25_DistanceAndScore ==
    [][hist'.op = "road_update"
        => LET d == 3 * hist'.v * hist'.dt
               n == road'.score - road.score
           IN  /\ road'.distance_traveled = road.distance_traveled + d
               /\ n * 2000 <= d * road.multiplier
               /\ d * road.multiplier < (n + 1) * 2000]_vars

\* Two updates of 0.75 s at velocity 3 have each added 33.75 to the
\* distance and 33 to the score.
C25_Witness ==
    /\ hist.op = "road_update" /\ hist.v = 30 /\ hist.dt = 750
    /\ road.score = 66 /\ road.distance_traveled = 2 * 67500

\* The number of obstacles of list that an update (dt, v) moves below the
\* bottom of the screen.
C26_Expired(list, dt, v) ==
    Cardinality({ i \in 1..Len(list) : list[i].y + 3 * v * dt > 800 * 200 })

\* C26: Road.update adds dt to the spawn timer; if the sum is at least
\* 1500 ms the registry gains exactly one obstacle (beside those that
\* leave the screen) and the timer becomes 0, otherwise it gains none and
\* the timer keeps the sum; the timer is below 1500 after every update,
\* whatever the velocity.
C26_SpawnCadence ==
    /\ [][hist'.op = "road_update"
            => LET t == road.obstacle_spawn_timer + hist'.dt
                   kept == Len(road.obstacles)
                             - C26_Expired(road.obstacles, hist'.dt, hist'.v)
               IN  IF t >= 1500
                   THEN /\ road'.obstacle_spawn_timer = 0
                        /\ Len(road'.obstacles) = kept + 1
                   ELSE /\ road'.obstacle_spawn_timer = t
                        /\ Len(road'.obstacles) = kept]_vars
    /\ [](road.obstacle_spawn_timer < 1500)

\* The third update since construction or reset, after one of 16 ms and
\* one of 750 ms, has spawned the only obstacle with the vehicle standing:
\* the timer had passed 1500 by 16 ms and is 0.
C26_Witness ==
    /\ hist.op = "road_update" /\ hist.ticks = 3 /\ hist.v = 0
    /\ hist.dt = 750 /\ hist.spawned # << >>
    /\ Len(road.obstacles) = 1 /\ road.obstacle_spawn_timer = 0
    /\ road.distance_traveled = 3 * 2 * 16

\* C27: the obstacle spawn_obstacle creates for the draws lane and rand has
\* lane in {0,1,2}, x = lane*200+100, y = -100, width 50, height 80,
\* active, points not awarded, and type Truck (20 points) for rand < 0.33,
\* Barrier (5 points) for 0.33 <= rand < 0.67, Car (10 points) otherwise.
C27_SpawnedObstacle ==
    hist.spawned # << >>
        => LET o == hist.spawned[1]
           IN  /\ hist.lane \in {0, 1, 2}
               /\ o.x = hist.lane * 200 + 100
               /\ o.y = -100 * 200
               /\ o.width = 50 /\ o.height = 80
               /\ o.active /\ ~o.points_awarded
               /\ IF hist.rand < 33
                  THEN o.obstacle_type = "truck" /\ point_values(o.obstacle_type) = 20
                  ELSE IF hist.rand < 67
                  THEN o.obstacle_type = "barrier" /\ point_values(o.obstacle_type) = 5
                  ELSE o.obstacle_type = "car" /\ point_values(o.obstacle_type) = 10

\* A draw of exactly 0.33 has made a barrier in lane 2.
C27_Witness ==
    /\ hist.spawned # << >> /\ hist.rand = 33 /\ hist.lane = 2
    /\ hist.spawned[1].obstacle_type = "barrier" /\ hist.spawned[1].x = 500

\* C33: in every reachable road state the score is at most the distance
\* traveled (distance_traveled is in 1/2000, the multiplier is 1), and a
\* Road.update whose distance increment v*dt*15 is below 1 leaves the score
\* as it was while adding the increment to distance_traveled, so a run of
\* such updates never changes the score however far the distance grows.
C33_ScoreBelowDistance ==
    /\ [](road.multiplier = 1 /\ road.score * 2000 <= road.distance_traveled)
    /\ [][(hist'.op = "road_update" /\ 3 * hist'.v * hist'.dt < 2000)
            => /\ road'.score = road.score
               /\ road'.distance_traveled
                    = road.distance_traveled + 3 * hist'.v * hist'.dt]_vars

\* Updates of 16 ms at velocity 3, each with an increment of 0.72, have
\* taken the distance past 2 with the score still 0.
C33_Witness ==
    /\ hist.op = "road_update" /\ hist.v = 30 /\ hist.dt = 16
    /\ road.distance_traveled = 3 * (3 * 30 * 16) /\ road.score = 0

\* The x positions the vehicle can have: the multiples of 10 from the center
\* of lane 0 to the center of lane 2.
C37_Xs == { x \in LaneCenter(0)..LaneCenter(2) : x % lane_change_speed = 0 }

\* check_collisions reports a collision of the vehicle placed at x with
\* obstacle o.
C37_Hits(x, o) ==
    Road_check_collisions([ road EXCEPT !.obstacles = <<o>> ],
                          Car_get_rect([ car EXCEPT !.x = x ]))

\* C37: for every obstacle of the registry, wherever it is on the screen: a
\* vehicle at a lane center does not collide with it unless it was spawned
\* in that lane, and a vehicle at any x collides with it only if x is
\* within 47 of the center of the obstacle's lane; so a collision with an
\* obstacle of another lane needs the vehicle in transit between centers.
C37_OtherLane ==
    \A i \in 1..Len(road.obstacles) :
        LET o == road.obstacles[i]
        IN  /\ \E l \in 0..(num_lanes - 1) : o.x = LaneCenter(l)
            /\ \A l \in 0..(num_lanes - 1) :
                  o.x # LaneCenter(l) => ~C37_Hits(LaneCenter(l), o)
            /\ \A x \in C37_Xs :
                  C37_Hits(x, o) => Abs(x - o.x) <= 47

\* An obstacle of lane 0 is level with the vehicle: a vehicle on its way
\* from lane 1 collides with it at x = 140 and not yet at x = 150, and a
\* vehicle at the center of lane 1 does not.
C37_Witness ==
    \E i \in 1..Len(road.obstacles) :
        /\ road.obstacles[i].x = LaneCenter(0)
        /\ C37_Hits(140, road.obstacles[i])
        /\ ~C37_Hits(150, road.obstacles[i])
        /\ ~C37_Hits(LaneCenter(1), road.obstacles[i])

\* The number of updates with step d > 0 (in 1/200 pixel) after which
\* obstacle o, on the screen, has passed the bottom of the screen.
C38_TicksToLeave(o, d) == (BottomY - o.y) \div d + 1

\* C38: every obstacle of the registry is between y = -100 and the bottom
\* of the screen.  A Road.update with velocity > 0 and dt > 0 brings every
\* obstacle (the one it spawns included) one tick closer to leaving: those
\* one tick away, the oldest of the registry, are removed and the others
\* stay, moved down by the step; so under such updates every obstacle is
\* removed after finitely many ticks.  A Road.update with velocity 0
\* neither moves nor removes an obstacle and, when the spawn timer is due,
\* adds one at y = -100.
C38_ObstaclesLeave ==
    /\ [](\A i \in 1..Len(road.obstacles) :
            /\ road.obstacles[i].y >= -100 * 200
            /\ road.obstacles[i].y <= BottomY)
    /\ [][hist'.op = "road_update"
            => LET d == ObstacleStep(hist'.dt, hist'.v)
                   old == road.obstacles \o hist'.spawned
                   gone == Len(old) - Len(road'.obstacles)
               IN  IF d > 0
                   THEN \A i \in 1..Len(old) :
                          IF C38_TicksToLeave(old[i], d) = 1
                          THEN i <= gone
                          ELSE /\ i > gone
                               /\ road'.obstacles[i - gone]
                                    = [ old[i] EXCEPT !.y = old[i].y + d ]
                               /\ C38_TicksToLeave(road'.obstacles[i - gone], d)
                                    = C38_TicksToLeave(old[i], d) - 1
                   ELSE /\ road'.obstacles = old
                        /\ hist'.spawned # << >>
                             <=> road.obstacle_spawn_timer + hist'.dt
                                   >= obstacle_spawn_interval
                        /\ \A i \in 1..Len(hist'.spawned) :
                             hist'.spawned[i].y = -100 * 200]_vars

\* An obstacle spawned in the second of four updates of 0.75 s at velocity
\* 3 was three ticks from leaving, and has been removed by the fourth
\* update, which spawned the obstacle now one step down the screen.
C38_Witness ==
    /\ hist.op = "road_update" /\ hist.ticks = 4 /\ hist.removed = 1
    /\ hist.v = 30 /\ hist.dt = 750 /\ road.distance_traveled = 4 * 67500
    /\ Len(road.obstacles) = 1
    /\ C38_TicksToLeave(road.obstacles[1], 67500) = 2

\* C18 as stated: after Road.reset, whatever updates came before, the road
\* has the values of a freshly constructed road: no obstacles, spawn timer,
\* score, distance_traveled and scroll offset 0, multiplier 1.
C18_Original ==
    hist.op = "road_reset"
        => /\ road.obstacles = << >> /\ road.obstacle_spawn_timer = 0
           /\ road.score = 0 /\ road.distance_traveled = 0
           /\ road.multiplier = 1
           /\ road.road_y_offset = Road_init.road_y_offset

(***************************************************************************)
(* Properties of the game loop (checked under Spec).                       *)
(***************************************************************************)
\* The frame's events restarted the game: the game was over and an R key
\* came before any QUIT or ESCAPE.
Restarted ==
    /\ hist.op = "handle_events"
    /\ hist.state_before = "GAME_OVER"
    /\ hist.r_pressed

\* C7: once the events of a frame have restarted the game, and before the
\* update of that frame runs, lane = 1, target_lane = 1, velocity = 0,
\* score = 0, distance_traveled = 0, multiplier = 1 and the registry is empty.
C7_RestartState ==
    Restarted =>
        /\ game.pc = "update"
        /\ car.lane = 1 /\ car.target_lane = 1 /\ car.velocity = 0
        /\ road.score = 0 /\ road.distance_traveled = 0
        /\ road.multiplier = 1
        /\ road.obstacles = << >>

\* A restart of a game that ended with a positive score.
C7_Witness == Restarted /\ game.high_score > 0

\* The collision query on the current vehicle and road.
CollisionNow == Road_check_collisions(road, Car_get_rect(car))

\* C8: an update made while PLAYING ends in GAME_OVER exactly if the
\* collision query on the vehicle and road it has produced reports a
\* collision; nothing else enters GAME_OVER; GAME_OVER is left only for
\* PLAYING and only by a frame's events holding an R key.
C8_GameOverTransitions ==
    /\ [][(hist'.op = "update" /\ game.game_state = "PLAYING")
            => (game'.game_state = "GAME_OVER" <=> CollisionNow')]_vars
    /\ [][(game.game_state # "GAME_OVER" /\ game'.game_state = "GAME_OVER")
            => hist'.op = "update"]_vars
    /\ [][(game.game_state = "GAME_OVER" /\ game'.game_state # "GAME_OVER")
            => /\ game'.game_state = "PLAYING"
               /\ hist'.op = "handle_events" /\ hist'.r_pressed]_vars
    /\ [](game.game_state \in {"PLAYING", "GAME_OVER"})

\* An update made while PLAYING has just ended the game.
C8_Witness ==
    /\ hist.op = "update" /\ hist.state_before = "PLAYING"
    /\ game.game_state = "GAME_OVER"

\* C9: an update made while the game is over changes neither the road
\* (score, distance, scroll offset, spawn timer, obstacles) nor the
\* vehicle's velocity, x, lane, target_lane, braking and last_command.
C9_GameOverFrozen ==
    [][(hist'.op = "update" /\ game.game_state = "GAME_OVER")
        => /\ road'.score = road.score
           /\ road'.distance_traveled = road.distance_traveled
           /\ road'.road_y_offset = road.road_y_offset
           /\ road'.obstacle_spawn_timer = road.obstacle_spawn_timer
           /\ road'.obstacles = road.obstacles
           /\ Motion(car') = Motion(car)
           /\ car'.last_command = car.last_command]_vars

\* An update has run while the game was over, with the vehicle at speed and
\* obstacles on the road.
C9_Witness ==
    /\ hist.op = "update" /\ hist.state_before = "GAME_OVER"
    /\ game.game_state = "GAME_OVER"
    /\ car.velocity > 0 /\ road.obstacles # << >>

\* C12: the command an update made while PLAYING passes to update_controls
\* is the command most recently received from the predictor (CENTER before
\* the first prediction and after a restart): it is passed again in every
\* tick until the next prediction, which replaces it in the tick that
\* receives it; no other command is ever passed.
C12_SampleAndHold ==
    [][(hist'.op = "update" /\ game.game_state = "PLAYING")
        => /\ car'.current_command = hist'.held
           /\ car'.last_command = hist'.held]_vars

\* A tick without a prediction has passed the SWIPE_LEFT received earlier,
\* which had replaced a SWIPE_RIGHT the car was already following.
C12_Witness ==
    /\ hist.op = "update" /\ hist.state_before = "PLAYING"
    /\ game.time_since_last_prediction > 0
    /\ hist.held = "SWIPE_LEFT" /\ car.current_command = "SWIPE_LEFT"
    /\ car.target_lane = 1 /\ car.x > LaneCenter(1)

\* A frame's events have restarted the game.
C13_Restart ==
    /\ hist'.op = "handle_events" /\ hist'.r_pressed
    /\ hist'.state_before = "GAME_OVER"

\* C13: no step lowers score or distance_traveled except a restart, which
\* sets both to 0; in particular no update made while PLAYING does.
C13_NeverDecrease ==
    [][\/ /\ road'.score >= road.score
          /\ road'.distance_traveled >= road.distance_traveled
       \/ /\ C13_Restart
          /\ road'.score = 0 /\ road'.distance_traveled = 0]_vars

\* After a game that ended with a positive score and a restart, an update
\* made while PLAYING has raised score and distance_traveled from 0 again.
C13_Witness ==
    /\ hist.op = "update" /\ hist.state_before = "PLAYING"
    /\ game.high_score > 1
    /\ road.score > 0 /\ road.score < game.high_score
    /\ road.distance_traveled > 0

\* C14: multiplier is 1 in every reachable state, and award_points on any
\* obstacle of the registry would leave it 1.
C14_MultiplierOne ==
    /\ road.multiplier = 1
    /\ \A i \in 1..Len(road.obstacles) : Road_award_points(road, i).multiplier = 1

\* The game is over with a positive score and two obstacles on the road,
\* on either of which award_points could be called.
C14_Witness ==
    /\ game.game_state = "GAME_OVER" /\ Len(road.obstacles) >= 2
    /\ road.score > 0 /\ road.multiplier = 1

\* C16 as stated: once a frame's events have requested a reset (an R key
\* before any QUIT or ESCAPE), whatever the game state was, the obstacles
\* are cleared and the vehicle has its initial values.
C16_Original ==
    (hist.op = "handle_events" /\ hist.r_pressed)
        => /\ road.obstacles = << >>
           /\ car.x = NewCar.x /\ car.lane = NewCar.lane
           /\ car.target_lane = NewCar.target_lane
           /\ car.velocity = NewCar.velocity

\* C16 (amended): a frame's events that hold an R key (before any QUIT or
\* ESCAPE) while the game is over leave, before that frame's update, the
\* game PLAYING, no obstacles, and the vehicle at x 300 in lane 1 with
\* target_lane 1 and velocity 0; a frame's events while PLAYING, an R key
\* among them or not, change nothing of the vehicle, the road or game_state.
C16_ResetWhenOver ==
    /\ []((hist.op = "handle_events" /\ hist.r_pressed
              /\ hist.state_before = "GAME_OVER")
            => /\ game.game_state = "PLAYING" /\ game.pc = "update"
               /\ road.obstacles = << >>
               /\ car.x = NewCar.x /\ car.lane = NewCar.lane
               /\ car.target_lane = NewCar.target_lane
               /\ car.velocity = NewCar.velocity)
    /\ [][(hist'.op = "handle_events" /\ game.game_state = "PLAYING")
            => /\ car' = car /\ road' = road
               /\ game'.game_state = "PLAYING"]_vars

\* An R key has arrived while the game was over, the last prediction being
\* a swipe: the held command is CENTER again, the road is empty and the
\* vehicle stands.
C16_Witness ==
    /\ hist.op = "handle_events" /\ hist.r_pressed
    /\ hist.state_before = "GAME_OVER"
    /\ game.current_action # "CENTER" /\ game.pending_action = "CENTER"
    /\ road.obstacles = << >> /\ car.velocity = 0

\* C28: in an update made while PLAYING the command is taken in first
\* (it is the car's current command and has moved target_lane), then the
\* vehicle is updated (x has moved toward the new target_lane), then the
\* road (distance_traveled has grown by the new velocity times dt times 15),
\* then the collision query is made on the vehicle and road so produced and
\* decides the transition to GAME_OVER.
C28_TickOrder ==
    [][(hist'.op = "update" /\ game.game_state = "PLAYING")
        => LET tx == car'.target_lane * 200 + 100
           IN  /\ car'.current_command = hist'.held
               /\ car'.target_lane =
                     C19_Target(hist'.held, car.last_command, car.target_lane)
               /\ car'.x = IF Abs(car.x - tx) <= 3 THEN tx
                           ELSE IF car.x < tx THEN car.x + 10 ELSE car.x - 10
               /\ road'.distance_traveled =
                     road.distance_traveled + 3 * car'.velocity * hist'.dt
               /\ (game'.game_state = "GAME_OVER" <=> CollisionNow')]_vars

\* The tick that received SWIPE_LEFT has already moved the car 10 to the
\* left of the center lane and the road on.
C28_Witness ==
    /\ hist.op = "update" /\ hist.state_before = "PLAYING"
    /\ game.time_since_last_prediction = 0 /\ hist.held = "SWIPE_LEFT"
    /\ car.target_lane = 0 /\ car.x = 290 /\ car.lane = 1
    /\ road.distance_traveled > 0

\* C29: no obstacle of the registry ever has points_awarded set, and score
\* changes only in an update made while PLAYING, by the integer part of
\* velocity*dt*15, and in a restart, to 0.
C29_NoAward ==
    /\ [](\A i \in 1..Len(road.obstacles) : ~road.obstacles[i].points_awarded)
    /\ [][road'.score # road.score
            => \/ /\ hist'.op = "update" /\ game.game_state = "PLAYING"
                  /\ road'.score =
                        road.score + (3 * car'.velocity * hist'.dt) \div 2000
               \/ /\ hist'.op = "handle_events" /\ hist'.r_pressed
                  /\ game.game_state = "GAME_OVER"
                  /\ road'.score = 0]_vars

\* The game is still being played in its 11th update, in which the first
\* of three obstacles has left the screen.
C29_Witness ==
    /\ hist.op = "update" /\ hist.ticks = 11 /\ game.high_score = 0
    /\ game.game_state = "PLAYING" /\ Len(road.obstacles) = 2

\* The commands of the predictor.
C30_Commands == {"SWIPE_LEFT", "CENTER", "SWIPE_RIGHT"}

\* C30: predict answers every call, a failing one with CENTER and
\* confidence 0, and always with SWIPE_LEFT, CENTER or SWIPE_RIGHT; after a
\* failed call the held command is CENTER with confidence 0, the loop goes
\* on, and every update made while PLAYING passes CENTER to the car until the
\* next call of the predictor.
C30_PredictorFailure ==
    /\ [](\A d \in PredictDraws :
            /\ ModelPredictor_predict(d).action \in C30_Commands
            /\ ~d.ok => /\ ModelPredictor_predict(d).action = "CENTER"
                        /\ ModelPredictor_predict(d).confidence = 0)
    /\ [](game.pending_action \in C30_Commands)
    /\ [](hist.failed
            => /\ game.pending_action = "CENTER"
               /\ game.current_action = "CENTER"
               /\ game.current_confidence = 0
               /\ game.running => game.pc # "done")
    /\ []((hist.failed /\ hist.op = "update" /\ hist.state_before = "PLAYING")
            => car.current_command = "CENTER")

\* The tick after a failed call of the predictor has passed CENTER while
\* the car is still on its way to the lane an earlier swipe sent it to.
C30_Witness ==
    /\ hist.failed /\ hist.op = "update" /\ hist.state_before = "PLAYING"
    /\ game.time_since_last_prediction > 0
    /\ car.current_command = "CENTER" /\ car.lane # car.target_lane

(***************************************************************************)
(* Properties of the game loop over several rounds (checked under          *)
(* SpecRounds).                                                            *)
(***************************************************************************)
\* C34: no step lowers high_score, a restart included; high_score changes
\* only in an update that was made while PLAYING and ends in GAME_OVER; and
\* in every GAME_OVER state high_score >= score.
C34_HighScore ==
    /\ [][/\ game'.high_score >= game.high_score
          /\ (game'.high_score # game.high_score
                => /\ hist'.op = "update"
                   /\ game.game_state = "PLAYING"
                   /\ game'.game_state = "GAME_OVER")]_vars
    /\ [](game.game_state = "GAME_OVER" => game.high_score >= road.score)

\* A second round, played after a restart, has ended with a score below the
\* high score of the first, which is kept.
C34_Witness ==
    /\ hist.op = "update" /\ hist.state_before = "PLAYING"
    /\ game.game_state = "GAME_OVER"
    /\ road.score > 0 /\ game.high_score > road.score

\* C35: update calls the predictor only if the game was PLAYING and the time
\* that has passed since the last call (or since the start or the last
\* restart) reaches prediction_interval with this tick, and then leaves
\* time_since_last_prediction at 0; so it is never called in GAME_OVER and
\* at least prediction_interval passes between two calls.
C35_Cadence ==
    [][(hist'.op = "update" /\ hist'.queried)
        => /\ game.game_state = "PLAYING"
           /\ hist.elapsed + hist'.dt >= prediction_interval
           /\ game'.time_since_last_prediction = 0]_vars

\* In a round played after a restart, an update has called the predictor
\* a full second after the call before it.
C35_Witness ==
    /\ hist.op = "update" /\ hist.queried /\ game.high_score > 0
    /\ road.distance_traveled > 3 * 2 * 500 + 3 * 4 * 500
    /\ game.time_since_last_prediction = 0

\* C36: in the game loop with ModelPredictor as the source of commands,
\* BRAKE is never held as the pending action or passed to the vehicle, so
\* braking is false in every state, and no step lowers velocity except a
\* restart.
C36_NoBrake ==
    /\ [](/\ game.pending_action # "BRAKE" /\ game.current_action # "BRAKE"
          /\ car.current_command # "BRAKE" /\ car.last_command # "BRAKE"
          /\ ~car.braking)
    /\ [][car'.velocity >= car.velocity \/ C13_Restart]_vars

\* In a round played after a restart the car, steered by a swipe, has
\* accelerated from 0 again to a velocity of 1.0 or more.
C36_Witness ==
    /\ hist.op = "update" /\ hist.state_before = "PLAYING"
    /\ game.high_score > 0 /\ road.score < game.high_score
    /\ car.current_command \in Swipes /\ car.velocity >= 10

====
